---- MODULE Spec2Model ----
(***************************************************************************)
(* Model of the web client of the SEO page analyser:                       *)
(*   - lib/api (src/unnamed/part_000): the fetch wrappers, the credential  *)
(*     kept in localStorage under "seo_token", readError;                  *)
(*   - app/page.tsx: the HomePage component, its React state, runAnalysis  *)
(*     and handleAuth, and the values it renders from a result (badge,     *)
(*     technicalChecklist, groupedChecklist) in both HomePage variants;    *)
(*   - the admin overview around getAdminUsersOverview.                    *)
(* JavaScript runs each piece of code between two awaits atomically, so    *)
(* every action below is one such piece: it starts when an awaited promise *)
(* settles (or on a click) and runs to the next await.                     *)
(***************************************************************************)
EXTENDS Integers, Sequences, FiniteSets, TLC

\* ---------------------------------------------------------------- bounds
MaxInv == 2      \* runAnalysis invocations (clicks on the run button)
MaxLog == 4      \* length up to which the history logs are recorded
MaxPolls == 2    \* value at which the per-invocation poll counter saturates
MaxChecklist == 2   \* entries of a checklist
MaxScore == 100     \* highest score of a result
MaxDetail == 2      \* elements of the `detail` list of an error body
MaxOpens == 2       \* times the admin overview is opened
MaxApply == 2
MaxRecs == 5        \* recommendations of a result
MaxFailures == 7    \* checklist entries of a result with a long checklist

Invocations == 1..MaxInv

\* ------------------------------------------------------- program literals
NoToken == "<none>"               \* localStorage.getItem returns null
AccessTokens == {"t1", "t2"}      \* access_token values the backend hands out
\* useState<ResultState>(null): the null result, no audit behind it
NoResult == [audit |-> "", score |-> 0]

PollingStatuses == {"queued", "running"}
TerminalStatuses == {"completed", "failed"}
\* AuditStatus.status is a string on the wire; "paused" stands for any value
\* outside the declared union
RemoteStatuses == PollingStatuses \cup TerminalStatuses \cup {"paused"}

HttpStatuses == {200, 401, 409, 500}
ok(code) == code >= 200 /\ code <= 299

SetupOps == {"createProject", "createSchedule", "startAudit"}
Ops == SetupOps \cup {"getAuditStatus", "getAuditResults"}

Scores == {59, 72}

FailedAnalysisMsg == "Analize nepavyko. Patikrink URL ir bandyk dar karta."
PasswordTooShortMsg == "Slaptazodis turi buti bent 8 simboliu."
\* message of the TypeError a rejected fetch() carries
FetchRejectedMsg == "Failed to fetch"
\* message of the SyntaxError a rejected response.json() carries
JsonRejectedMsg == "Unexpected token in JSON"

fallback(o) ==
  CASE o = "createProject" -> "Failed to create project"
    [] o = "createSchedule" -> "Failed to create schedule"
    [] o = "startAudit" -> "Failed to start audit"
    [] o = "getAuditStatus" -> "Failed to read audit status"
    [] o = "getAuditResults" -> "Failed to read audit results"
    [] o = "register" -> "Failed to register user"
    [] o = "login" -> "Failed to login"
    [] o = "getAdminUsersOverview" -> "Failed to load admin users overview"

\* error bodies: what response.json() of a non-success response yields. A
\* body either fails to parse or is a value whose `detail` is a string, a
\* list, a number or absent; an element of the list has a string `msg` or not.
DetailString == "detail text"
FirstMsg == "first msg text"
OtherMsg == "other msg text"

DetailElements(k) ==
  { [msgIsString |-> TRUE, msg |-> IF k = 1 THEN FirstMsg ELSE OtherMsg],
    [msgIsString |-> FALSE, msg |-> ""] }

DetailLists ==
  UNION { {l \in [1..m -> UNION {DetailElements(k) : k \in 1..m}] :
             \A k \in 1..m : l[k] \in DetailElements(k)} : m \in 0..MaxDetail }

ErrorBodies ==
  { [parses |-> FALSE, kind |-> "absent", str |-> "", list |-> <<>>] }
    \cup { [parses |-> TRUE, kind |-> k, str |-> "", list |-> <<>>] :
             k \in {"absent", "number"} }
    \cup { [parses |-> TRUE, kind |-> "string", str |-> t, list |-> <<>>] :
             t \in {DetailString, ""} }
    \cup { [parses |-> TRUE, kind |-> "list", str |-> "", list |-> l] :
             l \in DetailLists }

\* readError returning the msg of the first element that has a string msg
readError_anyElement(body, fb) ==
  IF ~body.parses THEN fb
  ELSE IF body.kind = "string" THEN body.str
  ELSE IF body.kind = "list"
            /\ \E k \in 1..Len(body.list) : body.list[k].msgIsString
    THEN LET k == CHOOSE k \in 1..Len(body.list) :
                    /\ body.list[k].msgIsString
                    /\ \A j \in 1..(k - 1) : ~body.list[j].msgIsString
         IN body.list[k].msg
  ELSE fb

readError(body, fb) ==
  IF ~body.parses THEN fb
  ELSE IF body.kind = "string" THEN body.str
  ELSE IF body.kind = "list" /\ Len(body.list) > 0
    THEN LET first == body.list[1]
         IN IF first.msgIsString THEN first.msg ELSE fb
  ELSE fb

\* the id the backend gives the audit started by invocation i
AuditIdOf(i) == <<"a1", "a2", "a3", "a4">>[i]

PasswordLengths == {0, 7, 8}
MinPasswordLength == 8

\* ------------------------------------------------- the rendering of a result
\* page.tsx holds two HomePage components (lines 1-560 and 562-993)
PageVariants == {1, 2}

\* a string is the tuple of its characters
toLowerCaseChar(c) ==
  CASE c = "N" -> "n"
    [] c = "A" -> "a"
    [] c = "E" -> "e"
    [] OTHER -> c

toLowerCase(str) == [k \in 1..Len(str) |-> toLowerCaseChar(str[k])]

includes(str, part) ==
  \E k \in 0..(Len(str) - Len(part)) : SubSeq(str, k + 1, k + Len(part)) = part

isNotMeasured(value) ==
  LET normalized == toLowerCase(value)
  IN includes(normalized, <<"n", "/", "a">>)
       \/ includes(normalized,
                   <<"n", "e", "p", "a", "m", "a", "t", "u", "o", "t", "a">>)

\* checklist values the backend reports
ChecklistValues ==
  { <<"4", "2">>,
    <<"n", "a">>,
    <<"N", "/", "A">>,
    <<"0", " ", "(", "n", "/", "a", ")">>,
    <<"N", "e", "p", "a", "m", "a", "t", "u", "o", "t", "a">> }

BucketNames == {"do_now", "this_week", "later"}
\* priority is a string on the wire; "someday" stands for any other value
Priorities == BucketNames \cup {"someday"}

\* what the entries of a checklist can differ in: value, passed, priority
EntryChoices == ChecklistValues \X BOOLEAN \X Priorities
\* entries that differ in passed and priority only
PlainChoices == {<<"4", "2">>} \X BOOLEAN \X {"do_now", "later"}

\* the checklist of m entries chosen by f, without the label and target the
\* rendering only prints; the entry at position k carries the key k
ChecklistFrom(m, f) ==
  [k \in 1..m |-> [key |-> k, value |-> f[k][1], passed |-> f[k][2],
                   priority |-> f[k][3]]]

\* the m recommendations of the buckets f, without the reason and action the
\* rendering only prints; the one at position k carries the title k, and
\* `bucket` is a string on the wire
RecommendationsFrom(m, f) == [k \in 1..m |-> [title |-> k, bucket |-> f[k]]]

\* the issues, by title
IssueLists(n) == { [k \in 1..m |-> [title |-> k]] : m \in 0..n }

\* a payload of getAuditResults; a has... flag is FALSE when the payload lacks
\* the array
Payload(s, hasC, c, hasR, r, hasI, is) ==
  [score |-> s,
   hasChecklist |-> hasC, checklist |-> IF hasC THEN c ELSE <<>>,
   hasRecommendations |-> hasR, recommendations |-> IF hasR THEN r ELSE <<>>,
   hasIssues |-> hasI, issues |-> IF hasI THEN is ELSE <<>>]

\* useState<ResultState>(null) of the rendering
NullResult ==
  [isNull |-> TRUE, score |-> 0, hasChecklist |-> FALSE, checklist |-> <<>>,
   hasRecommendations |-> FALSE, recommendations |-> <<>>,
   hasIssues |-> FALSE, issues |-> <<>>]
\* nothing rendered yet
NoView == [rendered |-> FALSE, threw |-> FALSE]

\* the value runAnalysis hands to setResult for the payload `data`: the
\* checklist defaults to [], issues and recommendations are taken as they are
toResultState(data) ==
  [isNull |-> FALSE, score |-> data.score, hasChecklist |-> TRUE,
   checklist |-> IF data.hasChecklist THEN data.checklist ELSE <<>>,
   hasRecommendations |-> data.hasRecommendations,
   recommendations |-> data.recommendations,
   hasIssues |-> data.hasIssues, issues |-> data.issues]

badge_strict(res) ==
  IF res.isNull THEN "-"
  ELSE IF res.score > 80 THEN "Good"
  ELSE IF res.score > 60 THEN "Needs work"
  ELSE "Critical"

badge(res) ==
  IF res.isNull THEN "-"
  ELSE IF res.score >= 80 THEN "Good"
  ELSE IF res.score >= 60 THEN "Needs work"
  ELSE "Critical"

technicalChecklist(res) ==
  IF res.isNull \/ ~res.hasChecklist THEN <<>>
  ELSE [k \in 1..Len(res.checklist) |->
          [key |-> res.checklist[k].key,
           value |-> res.checklist[k].value,
           pass |-> res.checklist[k].passed,
           priority |-> res.checklist[k].priority]]

\* groupedChecklist of the first HomePage
groupedChecklist(list) ==
  [b \in BucketNames |->
     SelectSeq(list, LAMBDA item :
       ~item.pass /\ ~isNotMeasured(item.value) /\ item.priority = b)]

\* groupedChecklist of the second HomePage
groupedChecklist2(list) ==
  [b \in BucketNames |->
     SelectSeq(list, LAMBDA item : ~item.pass /\ item.priority = b)]

\* checklistPassedCount counting the entries that did not pass
checklistPassedCount_countsFailed(list) ==
  Len(SelectSeq(list, LAMBDA item : ~item.pass))

checklistPassedCount(list) == Len(SelectSeq(list, LAMBDA item : item.pass))

ChecklistTarget == 20

\* checklistTotal as the fixed target
checklistTotal_fixed(list) == ChecklistTarget

\* technicalChecklist.length || 20
checklistTotal(list) == IF Len(list) # 0 THEN Len(list) ELSE ChecklistTarget

\* the state the checklist list of the first HomePage prints for an entry
displayState(item) ==
  IF isNotMeasured(item.value) THEN "N/A" ELSE IF item.pass THEN "PASS" ELSE "FAIL"

\* the state the checklist list of the second HomePage prints for an entry
displayState2(item) == IF item.pass THEN "PASS" ELSE "FAIL"

\* groupedRecommendations keeping the first four of each bucket only
groupedRecommendations_capped(res) ==
  LET list == IF res.isNull \/ ~res.hasRecommendations THEN <<>>
              ELSE res.recommendations
  IN [b \in BucketNames |->
        LET group == SelectSeq(list, LAMBDA item : item.bucket = b)
        IN IF Len(group) <= 4 THEN group ELSE SubSeq(group, 1, 4)]

\* result?.recommendations ?? [] filtered by bucket
groupedRecommendations(res) ==
  LET list == IF res.isNull \/ ~res.hasRecommendations THEN <<>>
              ELSE res.recommendations
  IN [b \in BucketNames |-> SelectSeq(list, LAMBDA item : item.bucket = b)]

IssuesCap == 5
PlanCap == 7
ChecklistBucketCap == 6
RecommendationBucketCap == 4

\* Array.prototype.slice(0, n): a copy of the first n elements
slice(seq, n) == IF Len(seq) <= n THEN seq ELSE SubSeq(seq, 1, n)

\* the JSX of a non-null result reads result.issues.slice and
\* result.recommendations.slice: a TypeError when the array is undefined
renderThrows(res) == ~res.isNull /\ (~res.hasIssues \/ ~res.hasRecommendations)

\* one render of HomePage variant v with the result res: the useMemo values,
\* and what the JSX puts on the page (nothing when it throws)
HomePageView(res, v) ==
  LET list == technicalChecklist(res)
      groups == IF v = 1 THEN groupedChecklist(list) ELSE groupedChecklist2(list)
      recs == groupedRecommendations(res)
      shows == ~res.isNull /\ ~renderThrows(res)
  IN [rendered |-> TRUE,
      threw |-> renderThrows(res),
      badge |-> badge(res),
      technicalChecklist |-> list,
      checklistPassedCount |-> checklistPassedCount(list),
      checklistTotal |-> checklistTotal(list),
      groupedChecklist |-> groups,
      groupedRecommendations |-> recs,
      topIssues |-> IF shows THEN slice(res.issues, IssuesCap) ELSE <<>>,
      plan |-> IF shows THEN slice(res.recommendations, PlanCap) ELSE <<>>,
      displayStates |-> IF shows
                          THEN [k \in 1..Len(list) |->
                                  IF v = 1 THEN displayState(list[k])
                                           ELSE displayState2(list[k])]
                          ELSE <<>>,
      shownChecklist |-> [b \in BucketNames |->
                            IF shows THEN slice(groups[b], ChecklistBucketCap)
                                     ELSE <<>>],
      shownRecommendations |-> [b \in BucketNames |->
                                  IF shows THEN slice(recs[b], RecommendationBucketCap)
                                           ELSE <<>>]]

\* ------------------------------------------------------------------ state
VARIABLES
  mounted,    \* the HomePage component is mounted
  status, error, auditId, result, loggedIn, password,   \* React state
  token,      \* localStorage "seo_token"
  pc, op, auth, currentStatus,      \* per runAnalysis invocation
  authPc, authOp,                   \* the handleAuth flow
  adminPc, adminAuth,               \* a getAdminUsersOverview call
  written, observed, lastSeen, polls, fetches, setup, threw, overlapped,
  rejected,       \* a privileged call got a 401 and no login stored a token since
  registerCode,   \* status of the register response of the current handleAuth
  recording,      \* the histories `written` and `observed` are being recorded
  resultState, variant, view,   \* the rendering of a result: input, page, output
  errBody, errOp, errText,      \* a readError call: body, caller, returned text
  adminOpen, adminEpoch, adminState, overview, dropped,   \* the admin overview
  outputs,    \* the applications of the normalization: payload, context, output
  failure     \* the non-success response the last step received, if any

uiVars == <<mounted, status, error, auditId, result, loggedIn, password>>
invVars == <<pc, op, auth, currentStatus>>
authVars == <<authPc, authOp>>
adminVars == <<adminPc, adminAuth>>
callVars == <<polls, fetches, setup>>
histVars == <<written, observed, lastSeen, threw, overlapped>>
viewVars == <<resultState, variant, view, outputs>>
errVars == <<errBody, errOp, errText>>
panelVars == <<adminOpen, adminEpoch, adminState, overview, dropped>>
auxVars == <<viewVars, errVars, panelVars>>
vars == <<uiVars, token, invVars, authVars, adminVars, callVars, histVars, rejected,
         registerCode, recording, auxVars, failure>>

\* ---------------------------------------------------------------- helpers
\* a state setter of an unmounted component changes nothing
setState(old, new) == IF mounted THEN new ELSE old

Log(seq, x) == IF recording /\ Len(seq) < MaxLog THEN Append(seq, x) ELSE seq

InFlight(i) == pc[i] \notin {"idle", "done"}

\* clearTokenIfUnauthorized removing the token on every non-success response
clearTokenIfUnauthorized_onEveryFailure(code, tok) == NoToken

\* clearTokenIfUnauthorized with the test on the status never true
clearTokenIfUnauthorized_never(code, tok) == tok

clearTokenIfUnauthorized(code, tok) == IF code = 401 THEN NoToken ELSE tok

\* what a response of status `code` is to the api function that receives it
failureOf(code) ==
  IF ok(code) THEN "none" ELSE IF code = 401 THEN "unauthorized" ELSE "other"

\* the URL of the PDF report: the path of the audit, and the token held as
\* the query parameter when there is one; it reads the store and writes nothing
getAuditReportUrl(aid, tok) ==
  [audit |-> aid, query |-> IF tok = NoToken THEN "" ELSE tok]

\* authHeaders adding the Authorization header whatever getItem returned
authHeaders_always(tok) == TRUE

\* TRUE iff the headers carry Authorization: Bearer <token>
authHeaders(tok) == tok # NoToken

\* ------------------------------------------------------------------- Init
\* The state after the first render and the mount effect: a token left in
\* localStorage by an earlier visit sets loggedIn.
InitPage(rec) ==
  /\ mounted = TRUE
  /\ status = "idle"
  /\ error = ""
  /\ auditId = ""
  /\ result = NoResult
  /\ token \in {NoToken} \cup AccessTokens
  /\ loggedIn = (token # NoToken)
  /\ password = 0
  /\ pc = [i \in Invocations |-> "idle"]
  /\ op = [i \in Invocations |-> "none"]
  /\ auth = [i \in Invocations |-> FALSE]
  /\ currentStatus = [i \in Invocations |-> "none"]
  /\ authPc = "idle"
  /\ authOp = "none"
  /\ adminPc = "idle"
  /\ adminAuth = FALSE
  /\ written = [i \in Invocations |-> <<>>]
  /\ observed = [i \in Invocations |-> <<>>]
  /\ lastSeen = [i \in Invocations |-> "none"]
  /\ polls = [i \in Invocations |-> 0]
  /\ fetches = [i \in Invocations |-> 0]
  /\ setup = [i \in Invocations |-> <<>>]
  /\ threw = [i \in Invocations |-> FALSE]
  /\ overlapped = [i \in Invocations |-> FALSE]
  /\ rejected = FALSE
  /\ registerCode = 0
  /\ recording = rec
  /\ failure = "none"

\* no result handed to the rendering
ViewIdle ==
  /\ resultState = NullResult
  /\ variant = 1
  /\ view = NoView
  /\ outputs = <<>>

\* no readError call on its own
NoText == "<pending>"

ErrIdle ==
  /\ errBody = [parses |-> FALSE, kind |-> "absent", str |-> "", list |-> <<>>]
  /\ errOp = "none"
  /\ errText = NoText

\* the admin overview never opened
Opens == 1..MaxOpens
NoOverview == [phase |-> "closed", of |-> 0, message |-> ""]

PanelIdle ==
  /\ adminOpen = FALSE
  /\ adminEpoch = 0
  /\ adminState = NoOverview
  /\ overview = [e \in Opens |-> "none"]
  /\ dropped = {}

InitState(rec) == InitPage(rec) /\ ViewIdle /\ ErrIdle /\ PanelIdle

Init == InitState(FALSE)

\* ------------------------------------------------- pieces of runAnalysis
\* nextSetup with the schedule left out
nextSetup_skipsSchedule(o) == "startAudit"

\* the setup call runAnalysis makes once setup call o has returned
nextSetup(o) == IF o = "createProject" THEN "createSchedule" ELSE "startAudit"

\* invocation i calls api function o: the function runs up to its fetch, so
\* the headers are built from the token held now
Issue(i, o) ==
  /\ pc' = [pc EXCEPT ![i] = "fetch"]
  /\ op' = [op EXCEPT ![i] = o]
  /\ auth' = [auth EXCEPT ![i] = authHeaders(token)]
  /\ setup' = [setup EXCEPT ![i] = IF o \in SetupOps THEN Append(@, o) ELSE @]
  /\ polls' = [polls EXCEPT ![i] =
                 IF o = "getAuditStatus" /\ @ < MaxPolls THEN @ + 1 ELSE @]
  /\ fetches' = [fetches EXCEPT ![i] = IF o = "getAuditResults" THEN @ + 1 ELSE @]

\* invocation i moves to position p without calling the api
Goto(i, p) ==
  /\ pc' = [pc EXCEPT ![i] = p]
  /\ UNCHANGED <<op, auth, callVars>>

\* a catch block that lets the polling loop go on after a failed poll
catch_retriesPoll(i, msg) ==
  /\ error' = setState(error, msg)
  /\ status' = setState(status, "failed")
  /\ written' = [written EXCEPT ![i] = IF mounted THEN Log(@, "failed") ELSE @]
  /\ threw' = [threw EXCEPT ![i] = TRUE]
  /\ Goto(i, IF op[i] = "getAuditStatus" THEN "sleep" ELSE "done")

\* the catch block of runAnalysis
catch(i, msg) ==
  /\ error' = setState(error, msg)
  /\ status' = setState(status, "failed")
  /\ written' = [written EXCEPT ![i] = IF mounted THEN Log(@, "failed") ELSE @]
  /\ threw' = [threw EXCEPT ![i] = TRUE]
  /\ Goto(i, "done")

\* afterStatus with the loop test `currentStatus !== "completed"`
afterStatus_pollsUntilCompleted(i, s) ==
  IF s # "completed"
    THEN /\ Goto(i, "sleep")
         /\ UNCHANGED error
    ELSE /\ Issue(i, "getAuditResults")
         /\ UNCHANGED error

\* afterStatus with the else branch behind the loop left out
afterStatus_noMessage(i, s) ==
  IF s \in PollingStatuses
    THEN /\ Goto(i, "sleep")
         /\ UNCHANGED error
    ELSE IF s = "completed"
      THEN /\ Issue(i, "getAuditResults")
           /\ UNCHANGED error
      ELSE /\ UNCHANGED error
           /\ Goto(i, "done")

\* afterStatus with the wait of the loop left out
afterStatus_noWait(i, s) ==
  IF s \in PollingStatuses
    THEN /\ Issue(i, "getAuditStatus")
         /\ UNCHANGED error
    ELSE IF s = "completed"
      THEN /\ Issue(i, "getAuditResults")
           /\ UNCHANGED error
      ELSE /\ error' = setState(error, FailedAnalysisMsg)
           /\ Goto(i, "done")

\* afterStatus reading the results behind every status that ends the loop
afterStatus_readsResultsAlways(i, s) ==
  IF s \in PollingStatuses
    THEN /\ Goto(i, "sleep")
         /\ UNCHANGED error
    ELSE /\ Issue(i, "getAuditResults")
         /\ UNCHANGED error

\* the code after `currentStatus` got the value s: the while test, and the
\* if/else behind the loop
afterStatus(i, s) ==
  IF s \in PollingStatuses
    THEN /\ Goto(i, "sleep")
         /\ UNCHANGED error
    ELSE IF s = "completed"
      THEN /\ Issue(i, "getAuditResults")
           /\ UNCHANGED error
      ELSE /\ error' = setState(error, FailedAnalysisMsg)
           /\ Goto(i, "done")

\* seeStatus publishing the status only once the loop is over
seeStatus_publishesTerminalOnly(i, s) ==
  /\ currentStatus' = [currentStatus EXCEPT ![i] = s]
  /\ status' = IF s \in PollingStatuses THEN status ELSE setState(status, s)
  /\ written' = [written EXCEPT ![i] =
                   IF mounted /\ s \notin PollingStatuses THEN Log(@, s) ELSE @]
  /\ observed' = [observed EXCEPT ![i] = Log(@, s)]
  /\ lastSeen' = [lastSeen EXCEPT ![i] = s]
  /\ afterStatus(i, s)

\* a status s arrived in a response of startAudit or getAuditStatus
seeStatus(i, s) ==
  /\ currentStatus' = [currentStatus EXCEPT ![i] = s]
  /\ status' = setState(status, s)
  /\ written' = [written EXCEPT ![i] = IF mounted THEN Log(@, s) ELSE @]
  /\ observed' = [observed EXCEPT ![i] = Log(@, s)]
  /\ lastSeen' = [lastSeen EXCEPT ![i] = s]
  /\ afterStatus(i, s)

\* ---------------------------------------------------------------- actions
\* click on "Paleisti analize": runAnalysis up to the fetch of createProject
runAnalysis(i) ==
  /\ mounted /\ loggedIn
  /\ pc[i] = "idle"
  /\ \A j \in Invocations : j < i => pc[j] # "idle"
  /\ status' = "creating"
  /\ error' = ""
  /\ auditId' = ""
  /\ result' = NoResult
  /\ Issue(i, "createProject")
  /\ written' = [written EXCEPT ![i] = Log(<<>>, "creating")]
  /\ overlapped' = [j \in Invocations |->
                      IF \E k \in Invocations \ {i} : InFlight(k)
                        THEN (j = i \/ InFlight(j) \/ overlapped[j])
                        ELSE overlapped[j]]
  /\ UNCHANGED <<mounted, loggedIn, password, token, currentStatus, authVars,
                 adminVars, observed, lastSeen, threw, rejected, registerCode, recording, auxVars>>
  /\ failure' = "none"

\* fetch() of invocation i rejects: nothing was received
fetchRejects(i) ==
  /\ pc[i] = "fetch"
  /\ catch(i, FetchRejectedMsg)
  /\ UNCHANGED <<mounted, auditId, result, loggedIn, password, token,
                 currentStatus, authVars, adminVars, observed, lastSeen,
                 overlapped, rejected, registerCode, recording, auxVars>>
  /\ failure' = "none"

\* fetch() of invocation i resolves with a response of status `code`
fetchResolves(i, code) ==
  /\ pc[i] = "fetch"
  /\ IF ok(code)
       THEN /\ Goto(i, "json")
            /\ UNCHANGED <<token, rejected>>
       ELSE /\ token' = clearTokenIfUnauthorized(code, token)
            /\ rejected' = (rejected \/ code = 401)
            /\ Goto(i, "readError")
  /\ UNCHANGED <<uiVars, currentStatus, authVars, adminVars, histVars,
                 registerCode, recording, auxVars>>
  /\ failure' = failureOf(code)

\* readError of invocation i returns and the api function throws
readErrorReturns(i, body) ==
  /\ pc[i] = "readError"
  /\ catch(i, readError(body, fallback(op[i])))
  /\ UNCHANGED <<mounted, auditId, result, loggedIn, password, token,
                 currentStatus, authVars, adminVars, observed, lastSeen,
                 overlapped, rejected, registerCode, recording, auxVars>>
  /\ failure' = "none"

\* response.json() of a success response rejects
jsonRejects(i) ==
  /\ pc[i] = "json"
  /\ catch(i, JsonRejectedMsg)
  /\ UNCHANGED <<mounted, auditId, result, loggedIn, password, token,
                 currentStatus, authVars, adminVars, observed, lastSeen,
                 overlapped, rejected, registerCode, recording, auxVars>>
  /\ failure' = "none"

\* createProject / createSchedule returned: the next setup call is made
setupReturns(i) ==
  /\ pc[i] = "json"
  /\ op[i] \in {"createProject", "createSchedule"}
  /\ Issue(i, nextSetup(op[i]))
  /\ UNCHANGED <<uiVars, token, currentStatus, authVars, adminVars, histVars,
                 rejected, registerCode, recording, auxVars>>
  /\ failure' = "none"

\* startAudit returned {audit_id, status: s}
startAuditReturns(i, s) ==
  /\ pc[i] = "json"
  /\ op[i] = "startAudit"
  /\ auditId' = setState(auditId, AuditIdOf(i))
  /\ seeStatus(i, s)
  /\ UNCHANGED <<mounted, result, loggedIn, password, token, authVars,
                 adminVars, threw, overlapped, rejected, registerCode, recording, auxVars>>
  /\ failure' = "none"

\* the 1200 ms timer of the polling loop fires: getAuditStatus is called
timerFires(i) ==
  /\ pc[i] = "sleep"
  /\ Issue(i, "getAuditStatus")
  /\ UNCHANGED <<uiVars, token, currentStatus, authVars, adminVars, histVars,
                 rejected, registerCode, recording, auxVars>>
  /\ failure' = "none"

\* getAuditStatus returned {audit_id, status: s}
getAuditStatusReturns(i, s) ==
  /\ pc[i] = "json"
  /\ op[i] = "getAuditStatus"
  /\ seeStatus(i, s)
  /\ UNCHANGED <<mounted, auditId, result, loggedIn, password, token, authVars,
                 adminVars, threw, overlapped, rejected, registerCode, recording, auxVars>>
  /\ failure' = "none"

\* getAuditResults returned the payload of the audit of invocation i
getAuditResultsReturns(i, score) ==
  /\ pc[i] = "json"
  /\ op[i] = "getAuditResults"
  /\ result' = setState(result, [audit |-> AuditIdOf(i), score |-> score])
  /\ Goto(i, "done")
  /\ UNCHANGED <<mounted, status, error, auditId, loggedIn, password, token,
                 currentStatus, authVars, adminVars, histVars, rejected, registerCode, recording, auxVars>>
  /\ failure' = "none"

\* the HomePage component is unmounted (navigation away, tab closed)
unmount ==
  /\ mounted
  /\ mounted' = FALSE
  /\ UNCHANGED <<status, error, auditId, result, loggedIn, password, token,
                 invVars, authVars, adminVars, callVars, histVars, rejected, registerCode, recording, auxVars>>
  /\ failure' = "none"

\* --------------------------------------------------------------- handleAuth
\* typing into the password field
typePassword(len) ==
  /\ mounted
  /\ password # len
  /\ password' = len
  /\ UNCHANGED <<mounted, status, error, auditId, result, loggedIn, token,
                 invVars, authVars, adminVars, callVars, histVars, rejected,
                 registerCode, recording, auxVars>>
  /\ failure' = "none"

\* handleAuth without the test of the password length
handleAuth_skipsValidation ==
  /\ mounted
  /\ authPc = "idle"
  /\ registerCode' = 0
  /\ error' = ""
  /\ authOp' = "register"
  /\ authPc' = "fetch"
  /\ UNCHANGED <<mounted, status, auditId, result, loggedIn, password, token,
                 invVars, adminVars, callVars, histVars, rejected, recording, auxVars>>
  /\ failure' = "none"

\* click on the auth button: handleAuth up to the fetch of register
handleAuth ==
  /\ mounted
  /\ authPc = "idle"
  /\ registerCode' = 0
  /\ IF password < MinPasswordLength
       THEN /\ error' = PasswordTooShortMsg
            /\ authOp' = "none"
            /\ UNCHANGED authPc
       ELSE /\ error' = ""
            /\ authOp' = "register"
            /\ authPc' = "fetch"
  /\ UNCHANGED <<mounted, status, auditId, result, loggedIn, password, token,
                 invVars, adminVars, callVars, histVars, rejected, recording, auxVars>>
  /\ failure' = "none"

\* the catch block of handleAuth
authCatch(msg) ==
  /\ error' = setState(error, msg)
  /\ authPc' = "idle"
  /\ UNCHANGED <<mounted, status, auditId, result, loggedIn, password, authOp>>

\* the fetch of register or login rejects
authFetchRejects ==
  /\ authPc = "fetch"
  /\ authCatch(FetchRejectedMsg)
  /\ UNCHANGED <<token, invVars, adminVars, callVars, histVars, rejected,
                 registerCode, recording, auxVars>>
  /\ failure' = "none"

\* registerThrows without the exception for 409
registerThrows_onConflictToo(code) == ~ok(code)

\* the test under which register throws
registerThrows(code) == ~ok(code) /\ code # 409

\* register received a response: it throws, or returns and login is called
register(code) ==
  /\ authPc = "fetch" /\ authOp = "register"
  /\ registerCode' = code
  /\ token' = clearTokenIfUnauthorized(code, token)
  /\ IF registerThrows(code)
       THEN authPc' = "readError" /\ UNCHANGED authOp
       ELSE authPc' = "fetch" /\ authOp' = "login"
  /\ UNCHANGED <<uiVars, invVars, adminVars, callVars, histVars, rejected,
                 recording, auxVars>>
  /\ failure' = failureOf(code)

\* login received the response headers
login(code) ==
  /\ authPc = "fetch" /\ authOp = "login"
  /\ IF ok(code)
       THEN authPc' = "json" /\ UNCHANGED token
       ELSE authPc' = "readError" /\ token' = clearTokenIfUnauthorized(code, token)
  /\ UNCHANGED <<uiVars, authOp, invVars, adminVars, callVars, histVars,
                 rejected, registerCode, recording, auxVars>>
  /\ failure' = failureOf(code)

\* readError returns in register or login, which throws
authReadErrorReturns(body) ==
  /\ authPc = "readError"
  /\ authCatch(readError(body, fallback(authOp)))
  /\ UNCHANGED <<token, invVars, adminVars, callVars, histVars, rejected,
                 registerCode, recording, auxVars>>
  /\ failure' = "none"

\* response.json() of the login response rejects
loginJsonRejects ==
  /\ authPc = "json"
  /\ authCatch(JsonRejectedMsg)
  /\ UNCHANGED <<token, invVars, adminVars, callVars, histVars, rejected,
                 registerCode, recording, auxVars>>
  /\ failure' = "none"

\* login stores the access token and returns; handleAuth finishes
loginReturns(tok) ==
  /\ authPc = "json"
  /\ token' = tok
  /\ rejected' = FALSE
  /\ loggedIn' = setState(loggedIn, TRUE)
  /\ password' = setState(password, 0)
  /\ authPc' = "idle"
  /\ UNCHANGED <<mounted, status, error, auditId, result, authOp, invVars,
                 adminVars, callVars, histVars, registerCode, recording, auxVars>>
  /\ failure' = "none"

\* ------------------------------------------------- getAdminUsersOverview
getAdminUsersOverview ==
  /\ mounted
  /\ adminPc = "idle"
  /\ adminPc' = "fetch"
  /\ adminAuth' = authHeaders(token)
  /\ UNCHANGED <<uiVars, token, invVars, authVars, callVars, histVars,
                 rejected, registerCode, recording, auxVars>>
  /\ failure' = "none"

adminFetchResolves(code) ==
  /\ adminPc = "fetch"
  /\ IF ok(code)
       THEN /\ adminPc' = "json"
            /\ UNCHANGED <<token, rejected>>
       ELSE /\ adminPc' = "readError"
            /\ token' = clearTokenIfUnauthorized(code, token)
            /\ rejected' = (rejected \/ code = 401)
  /\ UNCHANGED <<uiVars, adminAuth, invVars, authVars, callVars, histVars,
                 registerCode, recording, auxVars>>
  /\ failure' = failureOf(code)

\* the call settles: it returns payload.items or throws to its caller
adminSettles ==
  /\ adminPc \in {"fetch", "json", "readError"}
  /\ adminPc' = "idle"
  /\ UNCHANGED <<uiVars, token, adminAuth, invVars, authVars, callVars,
                 histVars, rejected, registerCode, recording, auxVars>>
  /\ failure' = "none"

\* ------------------------------------------------------ the admin overview
\* The view that calls getAdminUsersOverview: every opening starts a fetch of
\* its own and numbers it; what a fetch brings is shown only while the view
\* is open and no later opening has happened.
\* settleOverview showing whatever arrives while the view is open
settleOverview_ignoresEpoch(e, st) ==
  /\ overview' = [overview EXCEPT ![e] = "settled"]
  /\ adminState' = IF adminOpen THEN st ELSE adminState
  /\ dropped' = IF adminOpen THEN dropped ELSE dropped \cup {e}

\* the call of opening e has returned or thrown: st is what it brings
settleOverview(e, st) ==
  /\ overview' = [overview EXCEPT ![e] = "settled"]
  /\ adminState' = IF adminOpen /\ e = adminEpoch THEN st ELSE adminState
  /\ dropped' = IF adminOpen /\ e = adminEpoch THEN dropped ELSE dropped \cup {e}

\* entry into the admin context: one getAdminUsersOverview call, loading shown
openAdmin ==
  /\ mounted /\ ~adminOpen
  /\ adminEpoch < MaxOpens
  /\ adminOpen' = TRUE
  /\ adminEpoch' = adminEpoch + 1
  /\ adminState' = [phase |-> "loading", of |-> adminEpoch + 1, message |-> ""]
  /\ overview' = [overview EXCEPT ![adminEpoch + 1] = "fetch"]
  /\ UNCHANGED <<uiVars, token, invVars, authVars, adminVars, callVars, histVars,
                 rejected, registerCode, recording, viewVars, errVars, dropped>>
  /\ failure' = "none"

\* the admin context is left
closeAdmin ==
  /\ mounted /\ adminOpen
  /\ adminOpen' = FALSE
  /\ adminState' = NoOverview
  /\ UNCHANGED <<uiVars, token, invVars, authVars, adminVars, callVars, histVars,
                 rejected, registerCode, recording, viewVars, errVars,
                 adminEpoch, overview, dropped>>
  /\ failure' = "none"

\* the fetch of the call of opening e rejects: the call throws
overviewFetchRejects(e) ==
  /\ overview[e] = "fetch"
  /\ settleOverview(e, [phase |-> "error", of |-> e, message |-> FetchRejectedMsg])
  /\ UNCHANGED <<uiVars, token, invVars, authVars, adminVars, callVars, histVars,
                 rejected, registerCode, recording, viewVars, errVars,
                 adminOpen, adminEpoch>>
  /\ failure' = "none"

\* the fetch of the call of opening e resolves with a response of status code
overviewFetchResolves(e, code) ==
  /\ overview[e] = "fetch"
  /\ IF ok(code)
       THEN /\ overview' = [overview EXCEPT ![e] = "json"]
            /\ UNCHANGED <<token, rejected>>
       ELSE /\ overview' = [overview EXCEPT ![e] = "readError"]
            /\ token' = clearTokenIfUnauthorized(code, token)
            /\ rejected' = (rejected \/ code = 401)
  /\ UNCHANGED <<uiVars, invVars, authVars, adminVars, callVars, histVars,
                 registerCode, recording, viewVars, errVars,
                 adminOpen, adminEpoch, adminState, dropped>>
  /\ failure' = failureOf(code)

\* readError returns in the call of opening e, which throws
overviewThrows(e, body) ==
  /\ overview[e] = "readError"
  /\ settleOverview(e, [phase |-> "error", of |-> e,
                        message |-> readError(body, fallback("getAdminUsersOverview"))])
  /\ UNCHANGED <<uiVars, token, invVars, authVars, adminVars, callVars, histVars,
                 rejected, registerCode, recording, viewVars, errVars,
                 adminOpen, adminEpoch>>
  /\ failure' = "none"

\* the call of opening e returns payload.items
overviewReturns(e) ==
  /\ overview[e] = "json"
  /\ settleOverview(e, [phase |-> "list", of |-> e, message |-> ""])
  /\ UNCHANGED <<uiVars, token, invVars, authVars, adminVars, callVars, histVars,
                 rejected, registerCode, recording, viewVars, errVars,
                 adminOpen, adminEpoch>>
  /\ failure' = "none"

\* ---------------------------------------------------------------- rendering
\* a render of HomePage with the result held: the useMemo values
render ==
  /\ ~view.rendered
  /\ view' = HomePageView(resultState, variant)
  /\ UNCHANGED <<uiVars, token, invVars, authVars, adminVars, callVars, histVars,
                 rejected, registerCode, recording, resultState, variant,
                 outputs, errVars, panelVars>>
  /\ failure' = "none"

\* the payloads the normalization is applied to
PurePayloads ==
  { Payload(72, TRUE,
            ChecklistFrom(2, <<(<<<<"N", "/", "A">>, TRUE, "do_now">>), (<<<<"4", "2">>, FALSE, "later">>)>>),
            TRUE, RecommendationsFrom(2, <<"later", "do_now">>), TRUE,
            <<[title |-> 1]>>),
    Payload(40, FALSE, <<>>, TRUE, <<>>, TRUE, <<>>) }

\* the values derived from a payload with the state of the page ignored
\* unless the visible status is completed
normalized_whenCompleted(data) ==
  IF status = "completed" THEN HomePageView(toResultState(data), variant)
  ELSE HomePageView(NullResult, variant)

\* the values HomePage derives from a payload: setResult's object (207-213),
\* then the useMemo values and the results section (145-182)
normalized(data) == HomePageView(toResultState(data), variant)

\* one application of the normalization to a payload, at most MaxApply in a
\* behaviour; the application is noted with the state of the page it met
normalize(data) ==
  /\ Len(outputs) < MaxApply
  /\ resultState' = toResultState(data)
  /\ view' = normalized(data)
  /\ outputs' = Append(outputs, [data |-> data, view |-> view',
                                  status |-> status, token |-> token,
                                  earlier |-> resultState])
  /\ UNCHANGED <<uiVars, token, invVars, authVars, adminVars, callVars, histVars,
                 rejected, registerCode, recording, variant, errVars, panelVars>>
  /\ failure' = "none"

\* ---------------------------------------------------------------- readError
\* readError(response, fallback) runs to its return
readErrorCall ==
  /\ errText = NoText
  /\ errText' = readError(errBody, fallback(errOp))
  /\ UNCHANGED <<uiVars, token, invVars, authVars, adminVars, callVars, histVars,
                 rejected, registerCode, recording, viewVars, errBody, errOp,
                 panelVars>>
  /\ failure' = "none"

\* ------------------------------------------------------------------- Next
\* the steps of the runAnalysis invocations I, the remote answering with
\* statuses of S
NextRun(I, S) ==
  \/ \E i \in I : runAnalysis(i)
  \/ \E i \in I : fetchRejects(i)
  \/ \E i \in I, code \in HttpStatuses : fetchResolves(i, code)
  \/ \E i \in I, body \in ErrorBodies : readErrorReturns(i, body)
  \/ \E i \in I : jsonRejects(i)
  \/ \E i \in I : setupReturns(i)
  \/ \E i \in I, s \in S : startAuditReturns(i, s)
  \/ \E i \in I : timerFires(i)
  \/ \E i \in I, s \in S : getAuditStatusReturns(i, s)
  \/ \E i \in I, score \in Scores : getAuditResultsReturns(i, score)
  \/ unmount

NextAuth ==
  \/ \E len \in PasswordLengths : typePassword(len)
  \/ handleAuth
  \/ authFetchRejects
  \/ \E code \in HttpStatuses : register(code)
  \/ \E code \in HttpStatuses : login(code)
  \/ \E body \in ErrorBodies : authReadErrorReturns(body)
  \/ loginJsonRejects
  \/ \E tok \in AccessTokens : loginReturns(tok)

NextAdmin ==
  \/ getAdminUsersOverview
  \/ \E code \in HttpStatuses : adminFetchResolves(code)
  \/ adminSettles

\* The orchestration: the run button clicked up to MaxInv times, a click not
\* waiting for the earlier invocations.
Next == NextRun(Invocations, RemoteStatuses)

Spec == Init /\ [][Next]_vars

\* One click on the run button, its history recorded.
InitSolo == InitState(TRUE)
NextSolo == NextRun({1}, RemoteStatuses)

SpecSolo == InitSolo /\ [][NextSolo]_vars

\* One click, a remote that keeps to the declared AuditStatus union and
\* answers every request, and an event loop that fires every timer.
DeclaredStatuses == PollingStatuses \cup TerminalStatuses

NextFair == NextRun({1}, DeclaredStatuses)

Settles(i) ==
  \/ fetchRejects(i)
  \/ \E code \in HttpStatuses : fetchResolves(i, code)
  \/ \E body \in ErrorBodies : readErrorReturns(i, body)
  \/ jsonRejects(i)
  \/ setupReturns(i)
  \/ \E s \in DeclaredStatuses : startAuditReturns(i, s)
  \/ \E s \in DeclaredStatuses : getAuditStatusReturns(i, s)
  \/ \E score \in Scores : getAuditResultsReturns(i, score)

FairSolo ==
  /\ InitSolo /\ [][NextFair]_vars
  /\ WF_vars(timerFires(1))
  /\ WF_vars(Settles(1))

\* The session: authentication, the admin overview call and one invocation of
\* runAnalysis sharing the credential.
NextSession == NextRun({1}, RemoteStatuses) \/ NextAuth \/ NextAdmin

SpecSession == Init /\ [][NextSession]_vars

\* The rendering of a result with a checklist of up to MaxChecklist entries,
\* by either HomePage.
InitView ==
  /\ InitPage(FALSE)
  /\ \E m \in 0..MaxChecklist, s \in Scores, hasC \in BOOLEAN :
       \E f \in [1..m -> EntryChoices] :
         resultState = toResultState(Payload(s, hasC, ChecklistFrom(m, f),
                                             TRUE, <<>>, TRUE, <<>>))
  /\ variant \in PageVariants
  /\ view = NoView
  /\ outputs = <<>>
  /\ ErrIdle
  /\ PanelIdle

SpecView == InitView /\ [][render]_vars

\* The rendering of results with long lists: up to MaxRecs recommendations,
\* or up to MaxFailures checklist entries that differ in passed and priority.
InitLists ==
  /\ InitPage(FALSE)
  /\ \/ \E m \in 0..MaxRecs, i \in IssueLists(1) :
          \E f \in [1..m -> Priorities] :
            resultState = toResultState(Payload(72, TRUE, <<>>, TRUE,
                                                RecommendationsFrom(m, f), TRUE, i))
     \/ \E m \in 0..MaxFailures :
          \E f \in [1..m -> PlainChoices] :
            resultState = toResultState(Payload(72, TRUE, ChecklistFrom(m, f),
                                                TRUE, <<>>, TRUE, <<>>))
  /\ variant \in PageVariants
  /\ view = NoView
  /\ outputs = <<>>
  /\ ErrIdle
  /\ PanelIdle

SpecLists == InitLists /\ [][render]_vars

\* The rendering of results whose payload lacks any of its arrays.
InitMissing ==
  /\ InitPage(FALSE)
  /\ \E mc, mr \in 0..1, i \in IssueLists(1), s \in Scores,
        hasC, hasR, hasI \in BOOLEAN :
       \E fc \in [1..mc -> EntryChoices], fr \in [1..mr -> Priorities] :
         resultState = toResultState(Payload(s, hasC, ChecklistFrom(mc, fc),
                                             hasR, RecommendationsFrom(mr, fr),
                                             hasI, i))
  /\ variant \in PageVariants
  /\ view = NoView
  /\ outputs = <<>>
  /\ ErrIdle
  /\ PanelIdle

SpecMissing == InitMissing /\ [][render]_vars

\* The rendering of a result of every score, and of no result.
InitBadge ==
  /\ InitPage(FALSE)
  /\ \/ resultState = NullResult
     \/ \E s \in 0..MaxScore :
          resultState = toResultState(Payload(s, TRUE, <<>>, TRUE, <<>>, TRUE, <<>>))
  /\ variant \in PageVariants
  /\ view = NoView
  /\ outputs = <<>>
  /\ ErrIdle
  /\ PanelIdle

SpecBadge == InitBadge /\ [][render]_vars

\* The normalization applied to the same payloads at different moments of a
\* session: between the applications one invocation of runAnalysis changes
\* the visible status, the error and the credential, and each application
\* finds the result of the earlier one.
InitPure ==
  /\ InitPage(FALSE)
  /\ resultState = NullResult
  /\ variant \in PageVariants
  /\ view = NoView
  /\ outputs = <<>>
  /\ ErrIdle
  /\ PanelIdle

NextPure ==
  \/ NextRun({1}, DeclaredStatuses)
  \/ \E data \in PurePayloads : normalize(data)

SpecPure == InitPure /\ [][NextPure]_vars

\* readError called by each api function on each error body.
NetworkOps == Ops \cup {"register", "login", "getAdminUsersOverview"}

InitError ==
  /\ InitPage(FALSE)
  /\ ViewIdle
  /\ errBody \in ErrorBodies
  /\ errOp \in NetworkOps
  /\ errText = NoText
  /\ PanelIdle

SpecError == InitError /\ [][readErrorCall]_vars

\* The admin overview opened and closed up to MaxOpens times, its calls
\* answered in any order.
NextPanel ==
  \/ openAdmin
  \/ closeAdmin
  \/ \E e \in Opens : overviewFetchRejects(e)
  \/ \E e \in Opens, code \in HttpStatuses : overviewFetchResolves(e, code)
  \/ \E e \in Opens, body \in ErrorBodies : overviewThrows(e, body)
  \/ \E e \in Opens : overviewReturns(e)

SpecPanel == Init /\ [][NextPanel]_vars

\* Authentication alone: the password typed and the auth button clicked.
SpecAuth == Init /\ [][NextAuth]_vars

\* =================================================================== claims
Last(seq) == seq[Len(seq)]

Prefix(seq, n) == IF Len(seq) <= n THEN seq ELSE SubSeq(seq, 1, n)

RECURSIVE Collapse(_)
\* seq with consecutive repeats collapsed
Collapse(seq) ==
  IF Len(seq) <= 1 THEN seq
  ELSE LET rest == Collapse(Tail(seq))
       IN IF seq[1] = rest[1] THEN rest ELSE <<seq[1]>> \o rest

\* invocation i takes a step
Steps(i) == pc'[i] # pc[i]

\* invocation i calls getAuditStatus in this step
IssuesPoll(i) == pc[i] = "sleep" /\ pc'[i] = "fetch" /\ op'[i] = "getAuditStatus"

\* a getAuditStatus call of invocation i is outstanding
PollOutstanding(i) ==
  op[i] = "getAuditStatus" /\ pc[i] \in {"fetch", "json", "readError"}

\* C1: while every remote call of an invocation has succeeded, the values the
\* invocation wrote to the visible status are "creating", then the status
\* startAudit returned, then the status of every getAuditStatus response in
\* the order received, and the visible status is the last of them; for
\* queued, running, completed the published sequence is creating, queued,
\* running, completed.
C1_StatusWritesFollowResponses ==
  \A i \in {1} :
    (mounted /\ pc[i] # "idle" /\ ~threw[i]) =>
      /\ written[i] = Prefix(<<"creating">> \o observed[i], MaxLog)
      /\ Len(written[i]) < MaxLog => status = Last(written[i])
      /\ observed[i] = <<"queued", "running", "completed">> =>
           Collapse(written[i]) = <<"creating", "queued", "running", "completed">>

C1_Witness ==
  /\ mounted /\ pc[1] = "done" /\ ~threw[1]
  /\ observed[1] = <<"queued", "running", "completed">>
  /\ written[1] = <<"creating", "queued", "running", "completed">>
  /\ status = "completed" /\ result # NoResult

\* C2: once a status response of an invocation carried completed or failed,
\* the invocation never calls getAuditStatus again and sees no further status;
\* a getAuditStatus call is issued, outstanding or waited for only while the
\* last status the invocation observed is queued or running.
C2_NoPollAfterTerminal ==
  /\ [](\A i \in Invocations :
          (PollOutstanding(i) \/ pc[i] = "sleep") => lastSeen[i] \in PollingStatuses)
  /\ [][\A i \in Invocations :
          /\ IssuesPoll(i) => lastSeen[i] \in PollingStatuses
          /\ lastSeen[i] \in TerminalStatuses =>
               /\ lastSeen'[i] = lastSeen[i]
               /\ polls'[i] = polls[i]
               /\ ~PollOutstanding(i)']_vars

C2_Witness ==
  /\ lastSeen[1] = "failed" /\ polls[1] = MaxPolls /\ pc[1] = "done"
  /\ lastSeen[2] = "completed" /\ polls[2] > 0 /\ pc[2] = "done"

\* startAudit of invocation i returned the status failed
StartAuditFailed(i) == op[i] = "startAudit" /\ lastSeen[i] = "failed"

\* C3: when startAudit itself returns failed, the invocation ends at once: it
\* has called neither getAuditStatus nor getAuditResults and never will, and
\* at its end the visible status is failed, the error is the fixed failure
\* message (no transport message), and the result is still null (unless an
\* overlapping invocation published one meanwhile).
C3_StartAuditFailedEndsAtOnce ==
  /\ [](\A i \in Invocations :
          StartAuditFailed(i) =>
            pc[i] = "done" /\ polls[i] = 0 /\ fetches[i] = 0 /\ ~threw[i])
  /\ [][\A i \in Invocations :
          (Steps(i) /\ StartAuditFailed(i)' /\ mounted) =>
            /\ status' = "failed"
            /\ error' = FailedAnalysisMsg
            /\ error' # FetchRejectedMsg
            /\ ~overlapped[i] => result' = NoResult]_vars

C3_Witness ==
  /\ mounted /\ StartAuditFailed(1) /\ pc[1] = "done" /\ ~overlapped[1]
  /\ status = "failed" /\ error = FailedAnalysisMsg /\ result = NoResult
  /\ polls[1] = 0 /\ fetches[1] = 0

\* invocation i has written completed or failed to the visible status
WroteTerminal(i) == threw[i] \/ lastSeen[i] \in TerminalStatuses

\* a runAnalysis invocation starts in this step
InvocationStarts == \E i \in Invocations : pc[i] = "idle" /\ pc'[i] # "idle"

\* C4 as stated: once the visible status is completed or failed it does not
\* change until a new runAnalysis invocation starts.
C4_TerminalAbsorbing ==
  [][(status \in TerminalStatuses /\ status' # status) => InvocationStarts]_vars

\* C4 amended: an invocation that has written completed or failed changes the
\* visible status at most once more, from its completed to failed, when its
\* getAuditResults call fails; after it wrote failed it changes nothing.
C4_TerminalThenOnlyResultsFailure ==
  [][\A i \in Invocations :
       (Steps(i) /\ WroteTerminal(i) /\ status' # status) =>
         /\ lastSeen[i] = "completed" /\ op[i] = "getAuditResults"
         /\ ~threw[i] /\ threw'[i]
         /\ status' = "failed"]_vars

C4_Witness ==
  /\ mounted /\ pc[1] = "done" /\ pc[2] = "idle"
  /\ lastSeen[1] = "completed" /\ op[1] = "getAuditResults" /\ threw[1]
  /\ status = "failed" /\ result = NoResult

\* C5: every runAnalysis invocation eventually reaches a terminal visible
\* status, whatever the remote answers.
C5_EveryInvocationTerminates ==
  \A i \in {1} :
    (mounted /\ InFlight(i)) ~>
      (~mounted \/ (pc[i] = "done" /\ status \in TerminalStatuses))

\* invocation i is in its polling loop
InLoop(i) == pc[i] = "sleep" \/ PollOutstanding(i)

\* C6: at most one polling loop is active at any time.
C6_AtMostOnePollingLoop ==
  \A i, j \in Invocations : (InLoop(i) /\ InLoop(j)) => i = j

\* C7: after the component is unmounted the polling loop calls getAuditStatus
\* no more, and what is still in flight writes no status, result or error.
C7_NoPollAfterUnmount ==
  [][~mounted =>
       /\ \A i \in Invocations : ~IssuesPoll(i)
       /\ status' = status /\ result' = result /\ error' = error]_vars

\* invocation i issues a request in this step
IssuesRequest(i) == pc[i] # "fetch" /\ pc'[i] = "fetch"

\* getAdminUsersOverview issues its request in this step
AdminIssues == adminPc = "idle" /\ adminPc' = "fetch"

\* C8: a privileged request carries the Authorization header iff a token is
\* stored when it is issued; a missing token blocks no request; after a 401
\* on a privileged call the token is absent, and with no login in between
\* the next privileged request goes out without the header.
C8_AuthorizationIffCredential ==
  /\ [](rejected => token = NoToken)
  /\ [](token = NoToken =>
          /\ \A i \in {1} :
               /\ (mounted /\ loggedIn /\ pc[i] = "idle") => ENABLED runAnalysis(i)
               /\ (pc[i] = "json" /\ op[i] \in {"createProject", "createSchedule"})
                    => ENABLED setupReturns(i)
               /\ pc[i] = "sleep" => ENABLED timerFires(i)
          /\ (mounted /\ adminPc = "idle") => ENABLED getAdminUsersOverview)
  /\ [][/\ \A i \in Invocations :
             IssuesRequest(i) =>
               /\ auth'[i] = (token # NoToken)
               /\ rejected => ~auth'[i]
        /\ AdminIssues =>
             /\ adminAuth' = (token # NoToken)
             /\ rejected => ~adminAuth']_vars

C8_Witness ==
  /\ rejected /\ token = NoToken /\ loggedIn
  /\ adminPc = "fetch" /\ ~adminAuth
  /\ pc[1] = "fetch" /\ op[1] = "getAuditStatus" /\ ~auth[1]

SetupOrder == <<"createProject", "createSchedule", "startAudit">>

\* the messages readError can return to api function o
ErrorMsgs(o) == {readError(body, fallback(o)) : body \in ErrorBodies}

\* the messages the failure of call o can carry when it fails at position p
FailureMsgs(p, o) ==
  CASE p = "fetch" -> {FetchRejectedMsg}
    [] p = "json" -> {JsonRejectedMsg}
    [] p = "readError" -> ErrorMsgs(o)

\* a setup call before startAudit failed in invocation i
SetupFailed(i) == threw[i] /\ op[i] \in {"createProject", "createSchedule"}

\* C9: the setup calls are issued in the order createProject, createSchedule,
\* startAudit, each at most once and each only when the one before returned;
\* when createProject or createSchedule fails, startAudit and every later call
\* stay uncalled, the invocation ends with status failed and the message of
\* the failing call, and the audit id is still empty.
C9_SetupInOrderAbortsOnFailure ==
  /\ [](\A i \in Invocations : setup[i] = Prefix(SetupOrder, Len(setup[i])))
  /\ [](\A i \in Invocations :
          SetupFailed(i) =>
            /\ pc[i] = "done" /\ Len(setup[i]) < 3 /\ lastSeen[i] = "none"
            /\ polls[i] = 0 /\ fetches[i] = 0)
  /\ [][\A i \in Invocations :
          /\ (setup'[i] # setup[i] /\ setup[i] # <<>>) =>
               pc[i] = "json" /\ op[i] = Last(setup[i])
          /\ (Steps(i) /\ SetupFailed(i)' /\ mounted) =>
               /\ status' = "failed"
               /\ error' \in FailureMsgs(pc[i], op[i])
               /\ ~overlapped[i] => auditId' = ""]_vars

C9_Witness ==
  /\ mounted /\ SetupFailed(1) /\ op[1] = "createSchedule" /\ pc[1] = "done"
  /\ setup[1] = <<"createProject", "createSchedule">>
  /\ status = "failed" /\ error = "Failed to create schedule" /\ auditId = ""

\* C10: in handleAuth a 409 answer to register is a success: register returns
\* and login is called; on any other non-success answer register throws, login
\* is not called and the message of the register error is shown.
C10_RegisterConflictIsSuccess ==
  /\ [](registerCode = 409 => authOp = "login")
  /\ []((registerCode # 0 /\ ~ok(registerCode) /\ registerCode # 409) =>
          authOp = "register" /\ authPc \in {"readError", "idle"})
  /\ [][(authOp = "register" /\ authPc = "readError" /\ authPc' = "idle" /\ mounted) =>
          /\ error' \in ErrorMsgs("register")
          /\ authOp' = "register"
          /\ loggedIn' = loggedIn /\ token' = token]_vars

C10_Witness ==
  /\ registerCode = 409 /\ authOp = "login" /\ authPc = "idle"
  /\ loggedIn /\ token \in AccessTokens /\ error = ""

\* the rendered bucket b shows the checklist entry with key k
InBucket(b, k) ==
  \E j \in 1..Len(view.groupedChecklist[b]) : view.groupedChecklist[b][j].key = k

BucketsOf(k) == {b \in BucketNames : InBucket(b, k)}

\* C11: in a rendered result every checklist entry is in at most one bucket;
\* a passed entry and an entry whose value is the not-measured sentinel are in
\* no bucket; a failed, measured entry of priority p is in bucket p and no
\* other.
C11_BucketsHoldFailedMeasuredOnly ==
  view.rendered =>
    \A k \in 1..Len(view.technicalChecklist) :
      LET item == view.technicalChecklist[k]
      IN /\ Cardinality(BucketsOf(item.key)) <= 1
         /\ item.pass => BucketsOf(item.key) = {}
         /\ isNotMeasured(item.value) => BucketsOf(item.key) = {}
         /\ (~item.pass /\ ~isNotMeasured(item.value)
               /\ item.priority \in BucketNames) =>
              BucketsOf(item.key) = {item.priority}

\* C11 on the first HomePage alone
C11_FirstPageBuckets == variant = 1 => C11_BucketsHoldFailedMeasuredOnly

\* C12: the band of a score s is Critical iff s < 60, Needs work iff
\* 60 <= s < 80 and Good iff s >= 80, one band for every score.
C12_BandsPartitionScores ==
  (view.rendered /\ ~resultState.isNull) =>
    LET s == resultState.score
    IN /\ view.badge \in {"Critical", "Needs work", "Good"}
       /\ view.badge = "Critical" <=> s < 60
       /\ view.badge = "Needs work" <=> (s >= 60 /\ s < 80)
       /\ view.badge = "Good" <=> s >= 80

C12_Witness ==
  /\ view.rendered /\ resultState.score = 80 /\ view.badge = "Good"
  /\ variant = 2

\* C20: readError returns the detail string when detail is a string; else the
\* msg of the first element when detail is a non-empty list whose first
\* element has a string msg; else the fallback the caller supplied.
C20_ReadErrorPreference ==
  errText # NoText =>
    LET isString == errBody.parses /\ errBody.kind = "string"
        isList == /\ errBody.parses /\ errBody.kind = "list"
                  /\ Len(errBody.list) > 0
                  /\ errBody.list[1].msgIsString
    IN /\ isString => errText = errBody.str
       /\ (~isString /\ isList) => errText = errBody.list[1].msg
       /\ (~isString /\ ~isList) => errText = fallback(errOp)

C20_Witness ==
  /\ errText = "Failed to login" /\ errOp = "login"
  /\ errBody.kind = "list" /\ Len(errBody.list) = 2
  /\ ~errBody.list[1].msgIsString /\ errBody.list[2].msgIsString

\* C14: every way runAnalysis ends without publishing a result, whatever the
\* error body and whatever the status the remote returned, leaves a non-empty
\* error message and the visible status failed.
C14_NoResultMeansFailedWithMessage ==
  [][\A i \in {1} :
       (Steps(i) /\ pc'[i] = "done" /\ mounted /\ result' = NoResult) =>
         /\ error' # ""
         /\ status' = "failed"]_vars

\* invocation i sends a getAuditStatus request in this step
PollIssued(i) ==
  /\ pc'[i] = "fetch" /\ op'[i] = "getAuditStatus"
  /\ ~(pc[i] = "fetch" /\ op[i] = "getAuditStatus")

\* invocation i receives a status in this step
StatusReceived(i) ==
  /\ pc[i] = "json" /\ op[i] \in {"startAudit", "getAuditStatus"}
  /\ Steps(i) /\ ~threw'[i]

\* C15: the polling of an invocation is sequential: a getAuditStatus request
\* is sent only when the wait has elapsed and no getAuditStatus request of the
\* invocation is outstanding; the wait starts only when the response before
\* it has been received; and each status is written to the visible status in
\* the step that receives it, so the writes follow the order of the responses.
C15_PollingIsSequential ==
  [][\A i \in Invocations :
       /\ PollIssued(i) => pc[i] = "sleep" /\ ~PollOutstanding(i)
       /\ (pc'[i] = "sleep" /\ Steps(i)) => StatusReceived(i)
       /\ PollOutstanding(i) => ~PollIssued(i)
       /\ (StatusReceived(i) /\ mounted) =>
            status' = lastSeen'[i] /\ currentStatus'[i] = lastSeen'[i]]_vars

C15_Witness ==
  /\ pc[1] = "fetch" /\ op[1] = "getAuditStatus" /\ polls[1] = MaxPolls
  /\ lastSeen[1] = "running" /\ status = "running" /\ mounted
  /\ pc[2] = "idle"

\* C16: an invocation calls getAuditResults once, in the step in which it
\* observes the status completed, and under no other status; when the call
\* succeeds its payload is published as the result; when it fails the
\* invocation ends failed, makes no further call and publishes no result.
C16_ResultsFetchedOnceOnCompleted ==
  /\ [](\A i \in Invocations :
          /\ fetches[i] <= 1
          /\ fetches[i] = 1 <=> lastSeen[i] = "completed"
          /\ op[i] = "getAuditResults" <=> fetches[i] = 1)
  /\ [][\A i \in Invocations :
          /\ (op[i] = "getAuditResults" /\ Steps(i) /\ ~threw'[i] /\ pc[i] = "json") =>
               /\ pc'[i] = "done"
               /\ mounted => result'.audit = AuditIdOf(i) /\ result'.score \in Scores
          /\ (op[i] = "getAuditResults" /\ Steps(i) /\ threw'[i]) =>
               /\ pc'[i] = "done" /\ fetches'[i] = 1
               /\ result' = result
               /\ ~overlapped[i] => result' = NoResult
               /\ mounted => status' = "failed"
          /\ (op[i] = "getAuditResults" /\ pc[i] = "done") =>
               pc'[i] = "done" /\ op'[i] = op[i] /\ fetches'[i] = fetches[i]]_vars

C16_Witness ==
  /\ pc[1] = "done" /\ ~threw[1] /\ op[1] = "getAuditResults"
  /\ result.audit = AuditIdOf(1) /\ mounted
  /\ pc[2] = "done" /\ threw[2] /\ op[2] = "getAuditResults" /\ fetches[2] = 1

\* invocation i receives the response to its request in this step
InvResponse(i) == pc[i] = "fetch" /\ pc'[i] \in {"json", "readError"}

\* a request ends in this step without a response (transport failure)
TransportFailure ==
  \/ \E i \in Invocations : pc[i] = "fetch" /\ pc'[i] = "done"
  \/ authPc = "fetch" /\ authPc' = "idle"
  \/ adminPc = "fetch" /\ adminPc' = "idle"

\* login stores the access token of its response in this step
LoginStores ==
  /\ authPc = "json" /\ authOp = "login" /\ authPc' = "idle"
  /\ token' \in AccessTokens

\* C17: the stored credential changes only when a successful login stores
\* its access token and when a response of status 401 is handled, which
\* removes it; a non-success response of another status, a transport failure
\* and every other step leave it as it is.
C17_CredentialWrittenByLoginAnd401Only ==
  [][/\ token' # token =>
          \/ LoginStores
          \/ failure' = "unauthorized" /\ token' = NoToken
     /\ failure' = "other" => token' = token
     /\ TransportFailure => token' = token]_vars

C17_Witness ==
  /\ failure = "other" /\ pc[1] = "readError" /\ op[1] = "getAuditResults"
  /\ token \in AccessTokens /\ ~rejected /\ authOp = "login" /\ authPc = "idle"

\* the api function that received the response of this step is on its
\* throwing path
AtReadError ==
  \/ \E i \in Invocations : InvResponse(i) /\ pc'[i] = "readError"
  \/ authPc = "fetch" /\ authPc' = "readError"
  \/ adminPc = "fetch" /\ adminPc' = "readError"

\* C18: when an api function receives a response of status 401 the token is
\* removed in that step, before the function throws; on a non-success
\* response no api function takes its returning path, register on 409
\* excepted; the path behind readError ends in the throw.
C18_UnauthorizedClearsThenFails ==
  [][/\ failure' = "unauthorized" => token' = NoToken /\ AtReadError
     /\ failure' = "other" =>
          \/ AtReadError
          \/ authOp = "register" /\ registerCode' = 409 /\ authOp' = "login"
     /\ \A i \in Invocations :
          /\ (InvResponse(i) /\ pc'[i] = "json") => failure' = "none"
          /\ (pc[i] = "readError" /\ Steps(i)) => threw'[i] /\ pc'[i] = "done"
     /\ (authPc = "fetch" /\ authPc' = "json") => failure' = "none"
     /\ (adminPc = "fetch" /\ adminPc' = "json") => failure' = "none"
     /\ (authPc = "readError" /\ authPc' # authPc) =>
          authPc' = "idle" /\ loggedIn' = loggedIn /\ authOp' = authOp]_vars

C18_Witness ==
  /\ failure = "unauthorized" /\ token = NoToken /\ loggedIn
  /\ authPc = "readError" /\ authOp = "login" /\ registerCode = 409

\* C19: clicked with a password of fewer than 8 characters, handleAuth issues
\* no request, sets the validation message and leaves loggedIn and the stored
\* credential as they are.
C19_ShortPasswordStopsHandleAuth ==
  [][(/\ authPc = "idle" /\ password < MinPasswordLength
      /\ password' = password /\ mounted' = mounted
      /\ pc' = pc /\ adminPc' = adminPc) =>
       /\ authPc' = "idle" /\ authOp' = "none"
       /\ error' = PasswordTooShortMsg
       /\ loggedIn' = loggedIn /\ token' = token]_vars

C19_Witness ==
  /\ authPc = "idle" /\ authOp = "none" /\ password = 7
  /\ error = PasswordTooShortMsg
  /\ loggedIn /\ token = "t2"

\* the call of opening e settles in this step
OverviewSettles(e) == overview[e] # "settled" /\ overview'[e] = "settled"

\* C13: the admin view shows only what the fetch of the latest opening
\* brought: a list or an error shown belongs to the latest opening, and when
\* the call of an earlier opening settles, in whatever order, what is shown
\* does not change; the call of the latest opening, settling while the view
\* is open, is what is shown.
C13_StaleOverviewNeverShown ==
  /\ [](adminState.phase # "closed" => adminOpen /\ adminState.of = adminEpoch)
  /\ [][\A e \in Opens :
          /\ (OverviewSettles(e) /\ e # adminEpoch) => adminState' = adminState
          /\ (OverviewSettles(e) /\ e = adminEpoch /\ adminOpen) =>
               adminState'.phase \in {"list", "error"} /\ adminState'.of = e]_vars

C13_Witness ==
  /\ adminOpen /\ adminEpoch = 2
  /\ adminState = [phase |-> "list", of |-> 2, message |-> ""]
  /\ overview[1] = "settled" /\ overview[2] = "settled"
  /\ dropped = {1}

\* C21: the progress counter of a rendered result: passedCount is the number
\* of checklist entries with passed = true, between 0 and the number of
\* entries; total is the number of entries when there are any, and 20 when the
\* checklist is empty or absent.
C21_ProgressCounter ==
  view.rendered =>
    LET entries == resultState.checklist
        n == Len(entries)
    IN /\ view.checklistPassedCount =
            Cardinality({k \in 1..n : entries[k].passed})
       /\ view.checklistPassedCount >= 0 /\ view.checklistPassedCount <= n
       /\ n > 0 => view.checklistTotal = n
       /\ n = 0 => view.checklistTotal = 20

C21_Witness ==
  /\ view.rendered /\ Len(resultState.checklist) = 2
  /\ view.checklistPassedCount = 1 /\ view.checklistTotal = 2

\* C22 as stated: the denominator of the checklist progress is 20 for every
\* result, also when the checklist has between 1 and 19 entries.
C22_DenominatorAlwaysTarget ==
  view.rendered => view.checklistTotal = 20

\* C22 amended: the denominator is 20 only for a result without checklist
\* entries (or with 20 of them); for a checklist of 1 to 19 entries it is the
\* number of entries, below 20.
C22_DenominatorIsTargetOnlyWhenEmpty ==
  view.rendered =>
    LET n == Len(view.technicalChecklist)
    IN /\ view.checklistTotal = 20 <=> (n = 0 \/ n = 20)
       /\ (n >= 1 /\ n <= 19) => view.checklistTotal = n /\ view.checklistTotal < 20

C22_Witness ==
  /\ view.rendered /\ Len(view.technicalChecklist) = 1
  /\ view.checklistTotal = 1 /\ variant = 2

\* the display state of an entry by the rule of the claim
StateOf(item) ==
  IF isNotMeasured(item.value) THEN "N/A" ELSE IF item.pass THEN "PASS" ELSE "FAIL"

\* C23: every checklist entry of a displayed result has one display state:
\* NA when its value is the not-measured sentinel, whatever its passed flag,
\* otherwise PASS when passed and FAIL when not; a passed entry with a
\* not-measured value is shown as NA and still counted in passedCount.
C23_DisplayStateOfEntry ==
  (view.rendered /\ ~view.threw) =>
    /\ Len(view.displayStates) = Len(view.technicalChecklist)
    /\ \A k \in 1..Len(view.technicalChecklist) :
         view.displayStates[k] = StateOf(view.technicalChecklist[k])
    /\ view.checklistPassedCount =
         Cardinality({k \in 1..Len(view.technicalChecklist) :
                        view.technicalChecklist[k].pass})

\* C23 on the first HomePage alone
C23_FirstPageDisplayState == variant = 1 => C23_DisplayStateOfEntry

\* the first Min(n, Len(seq)) elements of seq, in order
IsPrefixOf(shown, seq, n) ==
  /\ Len(shown) = (IF Len(seq) <= n THEN Len(seq) ELSE n)
  /\ \A j \in 1..Len(shown) : shown[j] = seq[j]

\* group holds exactly the elements of list that satisfy In, in list order:
\* its j-th element is the j-th element of list that satisfies In
IsSelection(group, list, In(_)) ==
  LET at == {k \in 1..Len(list) : In(list[k])}
  IN /\ Len(group) = Cardinality(at)
     /\ \A k \in at : group[Cardinality({h \in at : h <= k})] = list[k]

\* C24: in a rendered result every recommendation is in the bucket named by
\* its bucket field and in no other (one with an unknown bucket is in none),
\* each bucket keeps the order of the list, and the display caps (the first 4
\* recommendations and the first 6 checklist failures of a bucket) only
\* truncate what is shown: the buckets keep all their members and the
\* counters their values.
C24_BucketsByFieldCapsOnlyShown ==
  (view.rendered /\ ~view.threw) =>
    LET recs == resultState.recommendations
        list == view.technicalChecklist
    IN /\ \A b \in BucketNames :
            /\ IsSelection(view.groupedRecommendations[b], recs,
                           LAMBDA item : item.bucket = b)
            /\ IsPrefixOf(view.shownRecommendations[b],
                          view.groupedRecommendations[b], 4)
            /\ IsSelection(view.groupedChecklist[b], list,
                           LAMBDA item : /\ ~item.pass
                                         /\ ~isNotMeasured(item.value)
                                         /\ item.priority = b)
            /\ IsPrefixOf(view.shownChecklist[b], view.groupedChecklist[b], 6)
       /\ \A k \in 1..Len(recs) :
            Cardinality({b \in BucketNames :
                           \E j \in 1..Len(view.groupedRecommendations[b]) :
                             view.groupedRecommendations[b][j] = recs[k]})
              = (IF recs[k].bucket \in BucketNames THEN 1 ELSE 0)
       /\ view.checklistPassedCount =
            Cardinality({k \in 1..Len(list) : list[k].pass})
       /\ view.checklistTotal = (IF Len(list) = 0 THEN 20 ELSE Len(list))

\* five recommendations of one bucket: all five grouped, four shown
C24_Witness ==
  /\ view.rendered /\ ~view.threw
  /\ Len(view.groupedRecommendations["do_now"]) = 5
  /\ Len(view.shownRecommendations["do_now"]) = 4

\* seven checklist failures of one bucket: all seven grouped, six shown
C24_ChecklistWitness ==
  /\ view.rendered /\ ~view.threw
  /\ Len(view.groupedChecklist["later"]) = 7
  /\ Len(view.shownChecklist["later"]) = 6

\* C25: publishing and rendering the result of a completed audit never fails
\* on a payload that lacks issues, recommendations or checklist: the missing
\* array is held as an empty one and the render raises no exception.
C25_MissingArraysAreEmpty ==
  (view.rendered /\ ~resultState.isNull) =>
    /\ resultState.hasIssues /\ resultState.hasRecommendations
    /\ resultState.hasChecklist
    /\ ~view.threw

\* C25 for the checklist alone, and for the memoised values: a payload with
\* both other arrays renders, an absent checklist as an empty one, and the
\* groups of absent recommendations are empty
C25_MissingChecklistIsEmpty ==
  view.rendered =>
    /\ resultState.hasChecklist
    /\ (resultState.hasIssues /\ resultState.hasRecommendations) => ~view.threw
    /\ ~resultState.hasRecommendations =>
         \A b \in BucketNames : view.groupedRecommendations[b] = <<>>

PollFailed(i) == threw[i] /\ op[i] = "getAuditStatus"

\* C27: a failure of getAuditStatus in the polling loop is terminal for the
\* invocation: the step that fails ends it with the visible status failed and
\* the message of the error, and from then on the invocation sends no
\* getAuditStatus and no getAuditResults request and does not retry; another
\* attempt is made by another invocation only.
C27_PollFailureIsTerminal ==
  /\ [](\A i \in Invocations :
          PollFailed(i) => pc[i] = "done" /\ fetches[i] = 0 /\ polls[i] >= 1)
  /\ [][\A i \in Invocations :
          /\ (Steps(i) /\ PollFailed(i)' /\ mounted) =>
               /\ status' = "failed"
               /\ error' \in FailureMsgs(pc[i], op[i])
               /\ result' = result
          /\ PollFailed(i) =>
               /\ PollFailed(i)' /\ ~Steps(i)
               /\ polls'[i] = polls[i] /\ fetches'[i] = fetches[i]
               /\ ~PollIssued(i) /\ ~IssuesRequest(i)]_vars

\* the first invocation ended by a failed poll: no result read, status failed
\* with the message of the error, the second invocation not started
C27_Witness ==
  /\ PollFailed(1) /\ pc[1] = "done" /\ polls[1] = 1 /\ fetches[1] = 0
  /\ mounted /\ pc[2] = "idle"
  /\ status = "failed" /\ error = "Failed to read audit status"

\* after the failed poll of the first invocation, the second one at work
C27_NewInvocationWitness ==
  /\ PollFailed(1) /\ pc[1] = "done" /\ polls[1] = 1 /\ fetches[1] = 0
  /\ pc[2] = "fetch" /\ op[2] = "getAuditStatus" /\ status = "running"

\* invocation i starts in this step
Starts(i) == pc[i] = "idle" /\ pc'[i] # "idle"

\* invocation i has published the result of its audit
Published(i) == pc[i] = "done" /\ ~threw[i] /\ op[i] = "getAuditResults"

\* the first statements of runAnalysis: the step that starts an invocation
\* sets the status creating, clears error, audit id and result, and only then
\* issues the first remote call
C28_StartClears ==
  [][\A i \in Invocations :
       Starts(i) =>
         /\ status' = "creating" /\ error' = "" /\ auditId' = ""
         /\ result' = NoResult
         /\ setup[i] = <<>> /\ polls[i] = 0 /\ fetches[i] = 0
         /\ pc'[i] = "fetch" /\ op'[i] = "createProject"]_vars

\* C28: starting runAnalysis sets the visible status creating and clears the
\* error, the audit id and the result before any remote call is issued; so
\* from the start of an invocation until it publishes its own result, no
\* result of an earlier audit is displayed.
C28_NoEarlierResultAfterStart ==
  /\ C28_StartClears
  /\ [](\A i, j \in Invocations :
          (j < i /\ pc[i] # "idle" /\ ~Published(i)) =>
            result.audit # AuditIdOf(j))

\* C28 for an invocation started when no other one was in flight
C28_NoEarlierResultWithoutOverlap ==
  \A i, j \in Invocations :
    (j < i /\ pc[i] # "idle" /\ ~Published(i) /\ ~overlapped[i]) =>
      result.audit # AuditIdOf(j)

\* invocation i receives a status outside the declared ones in this step
UnknownStatusReceived(i) ==
  StatusReceived(i) /\ lastSeen'[i] \notin DeclaredStatuses

\* the last status invocation i received is outside the declared ones
SawUnknownStatus(i) == lastSeen[i] \notin DeclaredStatuses \cup {"none"}

\* what the code does on a status outside the declared ones: the invocation
\* ends at once, sends no further request, reads no result and sets the
\* message of a failed analysis
C29_UnknownStatusStopsPolling ==
  /\ [](\A i \in {1} :
          SawUnknownStatus(i) => pc[i] = "done" /\ fetches[i] = 0 /\ ~threw[i])
  /\ [][\A i \in {1} :
          /\ (UnknownStatusReceived(i) /\ mounted) =>
               /\ pc'[i] = "done" /\ polls'[i] = polls[i] /\ fetches'[i] = 0
               /\ result' = NoResult
               /\ error' = FailedAnalysisMsg
          /\ SawUnknownStatus(i) => ~Steps(i) /\ ~IssuesRequest(i)]_vars

\* C29: a status outside queued, running, completed and failed returned by
\* startAudit or getAuditStatus is treated as a failure: the invocation stops
\* polling, fetches no result and ends with the visible status failed and an
\* error message.
C29_UnknownStatusIsFailure ==
  /\ C29_UnknownStatusStopsPolling
  /\ [][\A i \in {1} :
          (UnknownStatusReceived(i) /\ mounted) =>
            status' = "failed" /\ error' # ""]_vars

\* the visible status an unknown status leaves
C29_UnknownStatusStaysVisible ==
  /\ SawUnknownStatus(1) /\ pc[1] = "done" /\ polls[1] = 1 /\ mounted
  /\ status = "paused" /\ error = FailedAnalysisMsg /\ result = NoResult

\* C30: in every reachable state, for any sequence of runAnalysis invocations
\* (also ones started while an earlier one is still polling): when a result is
\* displayed, the visible status is completed and the error message is empty.
C30_ResultMeansCompletedNoError ==
  result # NoResult => status = "completed" /\ error = ""

\* C30 while no invocation was started with another one in flight
C30_WithoutOverlap ==
  (result # NoResult /\ \A i \in Invocations : ~overlapped[i]) =>
    status = "completed" /\ error = ""

\* the result of the first invocation displayed while the second, started
\* during the first, has failed
C30_ResultBesideFailure ==
  /\ result.audit = AuditIdOf(1) /\ mounted
  /\ pc[2] = "done" /\ threw[2] /\ status = "failed" /\ error # ""

\* C31: in every reachable state in which a result is displayed, the audit id
\* displayed with it, from which the link to the PDF report is built, is the
\* id of the audit that produced the displayed result, for any sequence and
\* overlap of runAnalysis invocations.
C31_ReportLinkOfDisplayedResult ==
  result # NoResult =>
    /\ auditId = result.audit
    /\ getAuditReportUrl(auditId, token) = getAuditReportUrl(result.audit, token)

\* C31 while no invocation was started with another one in flight
C31_WithoutOverlap ==
  (result # NoResult /\ \A i \in Invocations : ~overlapped[i]) =>
    auditId = result.audit

\* the result of the first audit displayed with the link to the report of
\* the second
C31_LinkOfOtherAudit ==
  /\ mounted /\ result.audit = AuditIdOf(1) /\ auditId = AuditIdOf(2)
  /\ getAuditReportUrl(auditId, token) # getAuditReportUrl(result.audit, token)

\* the loggedIn flag is set only by the step in which a successful login
\* stores its token; together with the initial effect, which sets it when a
\* token is found, the flag is never true without a token having been stored
C32_FlagSetByLoginOnly ==
  [][(~loggedIn /\ loggedIn') => LoginStores /\ token' # NoToken]_vars

\* C32: after the initialisation of the page the loggedIn flag, which enables
\* the run button, is true only while a credential is stored: it becomes true
\* only when a successful login has stored the token (or a token was found at
\* load), and it does not stay true once a 401 response has cleared the
\* credential.
C32_LoggedInMeansCredentialStored ==
  /\ [](loggedIn => token # NoToken)
  /\ C32_FlagSetByLoginOnly
  /\ [][(failure' = "unauthorized" /\ token' = NoToken) => ~loggedIn']_vars

\* the run button enabled and an invocation started without a credential,
\* after a 401 response removed the token
C32_LoggedInWithoutCredential ==
  /\ mounted /\ loggedIn /\ token = NoToken /\ rejected
  /\ pc[1] = "fetch" /\ op[1] = "createSchedule" /\ ~auth[1]

====
